---- MODULE Spec2Model ----
(***************************************************************************)
(* Model of pz_translate.py: the Translator that parses a source-language  *)
(* script file into a template and a key -> text mapping, merges it with   *)
(* the existing target file and the translation provider's answers, and    *)
(* renders and writes (or deletes) the target file.                        *)
(*                                                                         *)
(* A Python str is a sequence of one-character strings; a file's content   *)
(* is one such sequence, its lines ending in "\n".  Positions are 1-based  *)
(* (Python's index i is position i+1); 0 stands for "substring not found". *)
(* A Python dict is an insertion-ordered sequence of <<key, value>> pairs. *)
(***************************************************************************)
EXTENDS Naturals, Sequences, FiniteSets, TLC

\* ------------------------------------------------------------------ str

\* s.startswith(sub) at position i
MatchAt(s, sub, i) ==
    /\ i >= 1
    /\ i + Len(sub) - 1 <= Len(s)
    /\ \A k \in 1..Len(sub) : s[i + k - 1] = sub[k]

RECURSIVE IndexFrom(_, _, _)
IndexFrom(s, sub, i) ==
    IF i + Len(sub) - 1 > Len(s) THEN 0
    ELSE IF MatchAt(s, sub, i) THEN i
    ELSE IndexFrom(s, sub, i + 1)

\* s.index(sub, start): the first position >= start, 0 when there is none
\* (where Python raises ValueError)
Index(s, sub, start) == IndexFrom(s, sub, start)

\* sub in s
Contains(s, sub) == Index(s, sub, 1) # 0

RECURSIVE RIndexFrom(_, _, _)
RIndexFrom(s, sub, i) ==
    IF i < 1 THEN 0
    ELSE IF MatchAt(s, sub, i) THEN i
    ELSE RIndexFrom(s, sub, i - 1)

\* s.rindex(sub): the last position, 0 when there is none
RIndex(s, sub) == RIndexFrom(s, sub, Len(s) - Len(sub) + 1)

\* s.endswith(sub)
EndsWith(s, sub) == MatchAt(s, sub, Len(s) - Len(sub) + 1)

\* s[i:j] with 1-based inclusive ends
Slice(s, i, j) == SubSeq(s, i, j)

RECURSIVE ReplaceFrom(_, _, _, _)
ReplaceFrom(s, old, new, i) ==
    IF i > Len(s) THEN <<>>
    ELSE IF MatchAt(s, old, i) THEN new \o ReplaceFrom(s, old, new, i + Len(old))
    ELSE <<s[i]>> \o ReplaceFrom(s, old, new, i + 1)

\* s.replace(old, new), old non-empty: left to right, non-overlapping
Replace(s, old, new) == ReplaceFrom(s, old, new, 1)

Whitespace == {" ", "\n", "\t"}

RECURSIVE LStrip(_)
LStrip(s) ==
    IF s # <<>> /\ Head(s) \in Whitespace THEN LStrip(Tail(s)) ELSE s

RECURSIVE RStrip(_)
RStrip(s) ==
    IF s # <<>> /\ s[Len(s)] \in Whitespace
    THEN RStrip(SubSeq(s, 1, Len(s) - 1)) ELSE s

\* s.strip()
Strip(s) == RStrip(LStrip(s))

RECURSIVE SplitFrom(_, _)
SplitFrom(s, i) ==
    IF i > Len(s) THEN <<>>
    ELSE LET nl  == Index(s, <<"\n">>, i)
             end == IF nl = 0 THEN Len(s) ELSE nl
         IN  <<SubSeq(s, i, end)>> \o SplitFrom(s, end + 1)

\* the lines a text file yields (readline, for line in f): each keeps its "\n"
SplitLines(s) == SplitFrom(s, 1)

RECURSIVE Join(_)
\* "".join(parts)
Join(parts) == IF parts = <<>> THEN <<>> ELSE Head(parts) \o Join(Tail(parts))

\* ----------------------------------------------------------------- dict

DictKeys(d) == {d[i][1] : i \in 1..Len(d)}

DictHas(d, k) == \E i \in 1..Len(d) : d[i][1] = k

DictGet(d, k) == d[CHOOSE i \in 1..Len(d) : d[i][1] = k][2]

\* d[k] = v: an existing key keeps its place, a new key goes last
DictSet(d, k, v) ==
    IF DictHas(d, k)
    THEN [i \in 1..Len(d) |-> IF d[i][1] = k THEN <<k, v>> ELSE d[i]]
    ELSE Append(d, <<k, v>>)

\* ------------------------------------------------------------ languages

\* self.source_lang["id"]: the source language's identifier
SourceId == <<"E", "N">>

\* the field the template carries for the target language's identifier
LanguageKey == <<"l", "a", "n", "g", "u", "a", "g", "e">>

\* "{language}"
LanguageField == <<"{">> \o LanguageKey \o <<"}">>

\* ------------------------------------------------------------ vars_mod

vars_mod(text) ==
    Replace(Replace(Replace(text, <<"<">>, <<"<", "{">>),
                    <<">">>, <<"}", ">">>),
            <<"%", "1">>, <<"{", "%", "1", "}">>)

vars_demod(text) ==
    Replace(Replace(Replace(text, <<"{", "%", "1", "}">>, <<"%", "1">>),
                    <<"<", "{">>, <<"<">>),
            <<"}", ">">>, <<">">>)

\* -------------------------------------------------------- parse_source

\* line.replace("{","{{").replace("}","}}")
EscapeBraces(line) ==
    Replace(Replace(line, <<"{">>, <<"{", "{">>), <<"}">>, <<"}", "}">>)

\* line[:index1].strip().replace(".","-")
NormalizeKey(raw) == Replace(Strip(raw), <<".">>, <<"-">>)

\* the locals of parse_source before the first line is read
ParseStart(warnings) ==
    [lines |-> <<>>, tdict |-> <<>>, is_valid |-> FALSE, key |-> <<>>,
     text |-> <<>>, warnings |-> warnings, status |-> "ok", cls |-> "None"]

\* the first line: only "{" is doubled, then the source id becomes {language}
parse_first(st, first) ==
    [st EXCEPT !.lines = Replace(Replace(first, <<"{">>, <<"{", "{">>),
                                 SourceId, LanguageField),
               !.cls = "First"]

\* ResetFlag without the test for the continuation marker
ResetFlagAnyLine(st, line) ==
    IF ~st.is_valid
    THEN [st EXCEPT !.is_valid = FALSE, !.key = <<>>, !.text = <<>>]
    ELSE st

\* the end of the loop body: the flag survives only on a line ending in ".."
ResetFlag(st, line) ==
    IF ~st.is_valid \/ ~EndsWith(Strip(line), <<".", ".">>)
    THEN [st EXCEPT !.is_valid = FALSE, !.key = <<>>, !.text = <<>>]
    ELSE st

\* one pass of the loop body over a line after the first
parse_line(st, raw) ==
    LET line == EscapeBraces(raw)
        index1 == Index(line, <<"=">>, 1)
        index2 == Index(line, <<"\"">>, index1 + 1)
        index3 == RIndex(line, <<"\"">>)
        key == NormalizeKey(Slice(line, 1, index1 - 1))
        text == Slice(line, index2 + 1, index3 - 1)
    IN  IF Contains(line, <<"=">>) /\ Contains(line, <<"\"">>)
        THEN IF index2 = 0
             THEN \* line.index raises ValueError, which parse_source lets through
                  [st EXCEPT !.status = "ValueError", !.cls = "Raise"]
             ELSE IF index2 = index3
             THEN ResetFlag([st EXCEPT !.warnings = @ + 1,
                                       !.is_valid = FALSE,
                                       !.lines = @ \o line,
                                       !.cls = "Malformed"], line)
             ELSE ResetFlag([st EXCEPT !.is_valid = TRUE,
                                       !.key = key,
                                       !.text = text,
                                       !.lines = @ \o Slice(line, 1, index2)
                                                   \o <<"{">> \o key \o <<"}">>
                                                   \o Slice(line, index3, Len(line)),
                                       !.tdict = DictSet(@, key, text),
                                       !.cls = "Assignment"], line)
        ELSE IF \/ Contains(line, <<"-", "-">>)
                \/ Strip(line) = <<>>
                \/ (EndsWith(Strip(line), <<".", ".">>) /\ ~st.is_valid)
        THEN ResetFlag([st EXCEPT !.is_valid = FALSE,
                                  !.lines = @ \o line,
                                  !.cls = "Skip"], line)
        ELSE ResetFlag([st EXCEPT !.is_valid = TRUE,
                                  !.lines = @ \o line,
                                  !.cls = "Continuation"], line)

RECURSIVE ParseLoop(_, _)
\* for line in f, stopping where an exception leaves the function
ParseLoop(st, rest) ==
    IF rest = <<>> \/ st.status # "ok" THEN st
    ELSE ParseLoop(parse_line(st, Head(rest)), Tail(rest))

\* parse_source on an existing file: the template is st.lines, the mapping st.tdict
parse_source(content, warnings) ==
    LET all == SplitLines(content)
        first == IF all = <<>> THEN <<>> ELSE Head(all)
        rest == IF all = <<>> THEN <<>> ELSE Tail(all)
    IN  ParseLoop(parse_first(ParseStart(warnings), first), rest)

\* ---------------------------------------------------------- format_map

RECURSIVE FormatFrom(_, _, _, _)
\* str.format_map from position i on, acc the text produced so far.  A field
\* name runs to its "}"; the names the templates here carry hold none of
\* ":", "!", "[", "." or a digit, so a name is looked up as it stands.
FormatFrom(t, mapping, i, acc) ==
    IF i > Len(t) THEN [ok |-> TRUE, text |-> acc, err |-> "None"]
    ELSE IF t[i] = "}"
    THEN IF i < Len(t) /\ t[i + 1] = "}"
         THEN FormatFrom(t, mapping, i + 2, Append(acc, "}"))
         ELSE [ok |-> FALSE, text |-> <<>>, err |-> "ValueError"]
    ELSE IF t[i] = "{"
    THEN IF i = Len(t) THEN [ok |-> FALSE, text |-> <<>>, err |-> "ValueError"]
         ELSE IF t[i + 1] = "{"
         THEN FormatFrom(t, mapping, i + 2, Append(acc, "{"))
         ELSE LET stops == {j \in (i + 1)..Len(t) : t[j] \in {"{", "}"}}
                  j == IF stops = {} THEN 0
                       ELSE CHOOSE a \in stops : \A b \in stops : a <= b
                  name == Slice(t, i + 1, j - 1)
              IN  IF j = 0 \/ t[j] = "{" \/ name = <<>>
                  THEN [ok |-> FALSE, text |-> <<>>, err |-> "ValueError"]
                  ELSE IF ~DictHas(mapping, name)
                  THEN [ok |-> FALSE, text |-> <<>>, err |-> "KeyError"]
                  ELSE FormatFrom(t, mapping, j + 1,
                                  acc \o DictGet(mapping, name))
    ELSE FormatFrom(t, mapping, i + 1, Append(acc, t[i]))

\* template_text.format_map(mapping)
format_map(t, mapping) == FormatFrom(t, mapping, 1, <<>>)

\* -------------------------------------------------- import_translations

\* one pass of the loop body of import_translations
import_line(st, line) ==
    LET index1 == Index(line, <<"=">>, 1)
        index2 == Index(line, <<"\"">>, index1 + 1)
        index3 == RIndex(line, <<"\"">>)
        key == NormalizeKey(Slice(line, 1, index1 - 1))
        text == Slice(line, index2 + 1, index3 - 1)
    IN  IF Contains(line, <<"=">>) /\ Contains(line, <<"\"">>)
        THEN IF index2 = 0
             THEN [st EXCEPT !.status = "ValueError"]
             ELSE ResetFlag([st EXCEPT !.key = key,
                                       !.text = text,
                                       !.tr_texts = DictSet(@, key, text),
                                       !.is_valid = TRUE], line)
        ELSE IF \/ Contains(line, <<"-", "-">>)
                \/ Strip(line) = <<>>
                \/ (EndsWith(Strip(line), <<".", ".">>) /\ ~st.is_valid)
        THEN ResetFlag([st EXCEPT !.is_valid = FALSE], line)
        ELSE ResetFlag([st EXCEPT !.is_valid = TRUE], line)

RECURSIVE ImportLoop(_, _)
ImportLoop(st, rest) ==
    IF rest = <<>> \/ st.status # "ok" THEN st
    ELSE ImportLoop(import_line(st, Head(rest)), Tail(rest))

\* import_translations: tr_texts after the file's lines, the first one skipped
import_translations(tr_texts, content) ==
    LET all == SplitLines(content)
        rest == IF all = <<>> THEN <<>> ELSE Tail(all)
    IN  ImportLoop([tr_texts |-> tr_texts, is_valid |-> FALSE, key |-> <<>>,
                    text |-> <<>>, status |-> "ok"], rest)

\* ------------------------------------------------------ get_translations

RECURSIVE SingleFrom(_, _, _, _, _, _)
\* the loop of translate_single from the i-th item of otexts on; the
\* provider answers its n-th call with resp[n]
SingleFrom(target, otexts, trtexts, calls, resp, i) ==
    IF i > Len(otexts) THEN [tr_texts |-> trtexts, calls |-> calls]
    ELSE IF DictHas(trtexts, otexts[i][1])
    THEN SingleFrom(target, otexts, trtexts, calls, resp, i + 1)
    ELSE LET answer == resp[Len(calls) + 1]
         IN  SingleFrom(target, otexts,
                        DictSet(trtexts, otexts[i][1], vars_demod(answer)),
                        Append(calls, [op |-> "translate", target |-> target,
                                       texts |-> <<vars_mod(otexts[i][2])>>,
                                       result |-> <<answer>>]),
                        resp, i + 1)

\* translate_single with the missing-key test left out
translate_single_all(target, otexts, trtexts, resp) ==
    LET RECURSIVE All(_, _, _)
        All(d, calls, i) ==
            IF i > Len(otexts) THEN [tr_texts |-> d, calls |-> calls]
            ELSE All(DictSet(d, otexts[i][1], vars_demod(resp[Len(calls) + 1])),
                     Append(calls, [op |-> "translate", target |-> target,
                                    texts |-> <<vars_mod(otexts[i][2])>>,
                                    result |-> <<resp[Len(calls) + 1]>>]),
                     i + 1)
    IN  All(trtexts, <<>>, 1)

\* translate_single: one provider call per key of otexts that trtexts lacks
translate_single(target, otexts, trtexts, resp) ==
    SingleFrom(target, otexts, trtexts, <<>>, resp, 1)

\* the keys of or_texts that tr_texts lacks, in or_texts' order
MissingKeys(or_texts, tr_texts) ==
    SelectSeq([i \in 1..Len(or_texts) |-> or_texts[i][1]],
              LAMBDA k : ~DictHas(tr_texts, k))

RECURSIVE AssignFrom(_, _, _, _)
AssignFrom(d, keys, translations, i) ==
    IF i > Len(keys) THEN d
    ELSE AssignFrom(DictSet(d, keys[i], vars_demod(translations[i])),
                    keys, translations, i + 1)

\* translate_batch: one provider call for all the keys tr_texts lacks (no
\* caller in the program)
translate_batch(target, or_texts, tr_texts, resp) ==
    LET keys == MissingKeys(or_texts, tr_texts)
        values == [i \in 1..Len(keys) |-> vars_mod(DictGet(or_texts, keys[i]))]
        translations == [i \in 1..Len(keys) |-> resp[i]]
    IN  IF values = <<>> THEN [tr_texts |-> tr_texts, calls |-> <<>>]
        ELSE [tr_texts |-> AssignFrom(tr_texts, keys, translations, 1),
              calls |-> <<[op |-> "translate_batch", target |-> target,
                           texts |-> values, result |-> translations]>>]

\* get_translations that never reads the existing target file
get_translations_fresh(source_texts, id, target_file, resp) ==
    LET t == translate_single(id, source_texts, <<<<LanguageKey, id>>>>, resp)
    IN  [status |-> "ok", tr_texts |-> t.tr_texts, calls |-> t.calls]

\* get_translations: target_file is the text at fpath, NoFile when
\* fpath.is_file() is false
get_translations(source_texts, id, target_file, resp) ==
    LET start == <<<<LanguageKey, id>>>>
        imp == IF target_file = <<"<missing>">>
               THEN [tr_texts |-> start, status |-> "ok"]
               ELSE import_translations(start, target_file)
        t == translate_single(id, source_texts, imp.tr_texts, resp)
    IN  IF imp.status # "ok"
        THEN [status |-> imp.status, tr_texts |-> imp.tr_texts, calls |-> <<>>]
        ELSE [status |-> "ok", tr_texts |-> t.tr_texts, calls |-> t.calls]

\* "if source_texts:" with "is not None" in its place
TruthyNotNone(source_texts) == source_texts # <<"<missing>">>

\* "if source_texts:": neither None nor an empty dict
Truthy(source_texts) == source_texts # <<"<missing>">> /\ source_texts # <<>>

\* ---------------------------------------------------------------- inputs

\* UI_EN = {\n
HeaderLine ==
    <<"U", "I", "_", "E", "N", " ", "=", " ", "{", "\n">>

\* UI_EN = {}\n
HeaderClosed ==
    <<"U", "I", "_", "E", "N", " ", "=", " ", "{", "}", "\n">>

\* A = "x",\n
LineAssign ==
    <<"A", " ", "=", " ", "\"", "x", "\"", ",", "\n">>

\* Key.Sub="Hello, {name}!"\n
LineBraces ==
    <<"K", "e", "y", ".", "S", "u", "b", "=", "\"", "H", "e", "l", "l", "o",
      ",", " ", "{", "n", "a", "m", "e", "}", "!", "\"", "\n">>

\* Foo="bar\n
LineOneQuote ==
    <<"F", "o", "o", "=", "\"", "b", "a", "r", "\n">>

\* "a"=b\n
LineNoQuoteAfter ==
    <<"\"", "a", "\"", "=", "b", "\n">>

\* -- c = "d"\n
LineComment ==
    <<"-", "-", " ", "c", " ", "=", " ", "\"", "d", "\"", "\n">>

\* \n
LineBlank ==
    <<"\n">>

\* }\n
LineClose ==
    <<"}", "\n">>

\* B = "y" ..\n
LineAssignDots ==
    <<"B", " ", "=", " ", "\"", "y", "\"", " ", ".", ".", "\n">>

\* more ..\n
LineMoreDots ==
    <<"m", "o", "r", "e", " ", ".", ".", "\n">>

\* {tail}\n
LinePlain ==
    <<"{", "t", "a", "i", "l", "}", "\n">>

\* language = "EN"\n
LineLanguage ==
    <<"l", "a", "n", "g", "u", "a", "g", "e", " ", "=", " ", "\"", "E", "N",
      "\"", "\n">>

\* a{b="x"\n
LineBraceKey ==
    <<"a", "{", "b", "=", "\"", "x", "\"", "\n">>

\* C = "<z> %1",\n
LineAssignC ==
    <<"C", " ", "=", " ", "\"", "<", "z", ">", " ", "%", "1", "\"", ",",
      "\n">>

\* A = "w\n
LineOneQuoteA ==
    <<"A", " ", "=", " ", "\"", "w", "\n">>

\* UI_FR = {\n
TgtHeader ==
    <<"U", "I", "_", "F", "R", " ", "=", " ", "{", "\n">>

\* A = "y",\n
TgtLineA ==
    <<"A", " ", "=", " ", "\"", "y", "\"", ",", "\n">>

\* B = "z",\n
TgtLineB ==
    <<"B", " ", "=", " ", "\"", "z", "\"", ",", "\n">>

\* language = "XX"\n
TgtLineLanguage ==
    <<"l", "a", "n", "g", "u", "a", "g", "e", " ", "=", " ", "\"", "X", "X",
      "\"", "\n">>

\* A = "overlay",\n
OvLineA ==
    <<"A", " ", "=", " ", "\"", "o", "v", "e", "r", "l", "a", "y", "\"", ",",
      "\n">>

\* C = "c",\n
OvLineC ==
    <<"C", " ", "=", " ", "\"", "c", "\"", ",", "\n">>

\* r
TextR ==
    <<"r">>

\* <{b}> q"=s
TextTagged ==
    <<"<", "{", "b", "}", ">", " ", "q", "\"", "=", "s">>

\* FR
IdFR ==
    <<"F", "R">>

\* DE
IdDE ==
    <<"D", "E">>

\* A
KeyA ==
    <<"A">>

\* C
KeyC ==
    <<"C">>

\* ----------------------------------------------------------------- state

VARIABLES
    \* parse_source and the renderer on one source file
    content,        \* the source file's text
    unread,         \* the lines f has not yielded yet
    st,             \* the locals of parse_source (and self.warnings)
    phase,          \* "open", "loop", "parsed", "rendered"
    last,           \* the line the loop body ran on last
    mapping,        \* the mapping handed to format_map
    out,            \* what format_map returned or raised
    \* translate_main over the Translate folder
    src,            \* document -> the source file's text, or NoFile
    tgt,            \* <<document, language>> -> the target file's text, or NoFile
    overlay,        \* <<document, language>> -> an import overlay's text, or NoFile
    warnings,       \* self.warnings
    pc,             \* "file", "lang", "done", "raised"
    fi,             \* index into self.files
    li,             \* index into self.languages
    run,            \* which call of translate_main this is
    template_text,  \* translate_main's local, None as NoFile
    source_texts,   \* translate_main's local, None as NoFile
    tr_texts,       \* what get_translations returned last
    calls,          \* the provider's calls of the current language step
    parsed,         \* document -> calls of parse_source in this run
    event           \* what the last language step did to the target file

pvars == <<content, unread, st, phase, last, mapping, out>>

svars == <<src, tgt, overlay, warnings, pc, fi, li, run, template_text,
           source_texts, tr_texts, calls, parsed, event>>

vars == <<pvars, svars>>

NoFile == <<"<missing>">>

\* --------------------------------------------------------------- bounds

\* lines after the first in a source file handed to parse_source
MaxLines == 2

\* ---------------------------------------------- parse_source, line by line

FirstLines == {HeaderLine, HeaderClosed}

LinePool ==
    {LineAssign, LineBraces, LineOneQuote, LineNoQuoteAfter, LineComment,
     LineBlank, LineClose, LineAssignDots, LineMoreDots, LinePlain,
     LineLanguage, LineBraceKey}

RECURSIVE Bodies(_)
\* the sequences of at most n pool lines
Bodies(n) ==
    IF n = 0 THEN {<<>>}
    ELSE LET shorter == Bodies(n - 1)
         IN  shorter \cup {Append(b, l) : b \in {x \in shorter : Len(x) = n - 1},
                                          l \in LinePool}

ParseFiles == {f \o Join(b) : f \in FirstLines, b \in Bodies(MaxLines)}

TargetIds == {IdFR, IdDE}

Texts == {TextR, TextTagged}

SyncIdle ==
    /\ src = <<>> /\ tgt = <<>> /\ overlay = <<>> /\ warnings = 0
    /\ pc = "idle" /\ fi = 0 /\ li = 0 /\ run = 0
    /\ template_text = NoFile /\ source_texts = NoFile
    /\ tr_texts = <<>> /\ calls = <<>> /\ parsed = <<>>
    /\ event = [kind |-> "none", file |-> 0, lang |-> 0, before |-> NoFile]

InitParse ==
    /\ content \in ParseFiles
    /\ unread = SplitLines(content)
    /\ st = ParseStart(0)
    /\ phase = "open"
    /\ last = <<>>
    /\ mapping = <<>>
    /\ out = [ok |-> TRUE, text |-> <<>>, err |-> "None"]
    /\ SyncIdle

\* lines += f.readline()...
ReadFirst ==
    /\ phase = "open"
    /\ st' = parse_first(st, Head(unread))
    /\ unread' = Tail(unread)
    /\ phase' = "loop"
    /\ UNCHANGED <<content, last, mapping, out, svars>>

\* one pass of "for line in f"
ReadLine ==
    /\ phase = "loop"
    /\ st.status = "ok"
    /\ unread # <<>>
    /\ st' = parse_line(st, Head(unread))
    /\ last' = Head(unread)
    /\ unread' = Tail(unread)
    /\ UNCHANGED <<content, phase, mapping, out, svars>>

\* return "".join(lines), tdict
Return ==
    /\ phase = "loop"
    /\ st.status = "ok"
    /\ unread = <<>>
    /\ phase' = "parsed"
    /\ UNCHANGED <<content, unread, st, last, mapping, out, svars>>

RECURSIVE FillFrom(_, _, _, _)
FillFrom(d, tdict, text, i) ==
    IF i > Len(tdict) THEN d
    ELSE FillFrom(IF DictHas(d, tdict[i][1]) THEN d
                  ELSE DictSet(d, tdict[i][1], text), tdict, text, i + 1)

\* a mapping with the reserved key and a text for every other key of tdict
FullMapping(tdict, id, text) == FillFrom(<<<<LanguageKey, id>>>>, tdict, text, 1)

\* template_text.format_map(mapping) with every referenced key bound
Render ==
    /\ phase = "parsed"
    /\ \E id \in TargetIds, text \in Texts :
          /\ mapping' = FullMapping(st.tdict, id, text)
          /\ out' = format_map(st.lines, mapping')
    /\ phase' = "rendered"
    /\ UNCHANGED <<content, unread, st, last, svars>>

NextParse == ReadFirst \/ ReadLine \/ Return \/ Render

SpecParse == InitParse /\ [][NextParse]_vars

\* ------------------------------------------------------- translate_main

\* translate_main is called at most this many times on the same folder
MaxRuns == 2

\* self.files
Files == <<"UI", "IG">>

\* the identifiers of self.languages
Languages == <<IdFR, IdDE>>

Pairs == (1..Len(Files)) \X (1..Len(Languages))

SrcHeaderOnly == HeaderLine \o LineClose

SrcOne == HeaderLine \o LineAssign \o LineClose

SrcTwo == HeaderLine \o LineAssign \o LineAssignC \o LineClose

SrcOneQuoteAgain == HeaderLine \o LineAssign \o LineOneQuoteA \o LineClose

SrcNoQuoteAfter == HeaderLine \o LineNoQuoteAfter \o LineClose

SrcLanguage == HeaderLine \o LineLanguage \o LineAssign \o LineClose

SrcBraces == HeaderLine \o LineBraces \o LineClose

SrcClosedHeader == HeaderClosed \o LineAssign

TgtPlain == TgtHeader \o TgtLineA \o TgtLineB \o LineClose

TgtLanguage == TgtHeader \o TgtLineLanguage \o TgtLineA \o LineClose

TgtNoQuoteAfter == TgtHeader \o LineNoQuoteAfter \o LineClose

OverlayFile == TgtHeader \o OvLineA \o OvLineC \o LineClose

\* what the folder may hold when translate_main starts
SrcPool(f) ==
    IF f = 1
    THEN {NoFile, SrcHeaderOnly, SrcOne, SrcTwo, SrcOneQuoteAgain,
          SrcNoQuoteAfter, SrcLanguage, SrcBraces, SrcClosedHeader}
    ELSE {NoFile, SrcOne}

TgtPool(p) ==
    IF p = <<1, 1>> THEN {NoFile, TgtPlain, TgtLanguage, TgtNoQuoteAfter}
    ELSE {NoFile, TgtPlain}

OverlayPool(p) == IF p = <<1, 1>> THEN {NoFile, OverlayFile} ELSE {NoFile}

\* what the provider may answer a call with
Responses == {TextR, TextTagged}

NoEvent == [kind |-> "none", file |-> 0, lang |-> 0, before |-> NoFile]

ParseIdle ==
    /\ content = <<>> /\ unread = <<>> /\ st = ParseStart(0)
    /\ phase = "idle" /\ last = <<>> /\ mapping = <<>>
    /\ out = [ok |-> TRUE, text |-> <<>>, err |-> "None"]

Init ==
    /\ src \in [1..Len(Files) -> UNION {SrcPool(f) : f \in 1..Len(Files)}]
    /\ \A f \in 1..Len(Files) : src[f] \in SrcPool(f)
    /\ tgt \in [Pairs -> UNION {TgtPool(p) : p \in Pairs}]
    /\ \A p \in Pairs : tgt[p] \in TgtPool(p)
    /\ overlay \in [Pairs -> UNION {OverlayPool(p) : p \in Pairs}]
    /\ \A p \in Pairs : overlay[p] \in OverlayPool(p)
    /\ warnings = 0
    /\ pc = "file"
    /\ fi = 1
    /\ li = 1
    /\ run = 1
    /\ template_text = NoFile
    /\ source_texts = NoFile
    /\ tr_texts = <<>>
    /\ calls = <<>>
    /\ parsed = [f \in 1..Len(Files) |-> 0]
    /\ event = NoEvent
    /\ ParseIdle

\* "for file in self.files: template_text, source_texts = self.parse_source(file)"
ParseStep ==
    /\ pc = "file"
    /\ parsed' = [parsed EXCEPT ![fi] = @ + 1]
    /\ event' = [NoEvent EXCEPT !.kind = "parse", !.file = fi]
    /\ IF src[fi] = NoFile
       THEN \* FileNotFoundError: return None, None
            /\ template_text' = NoFile
            /\ source_texts' = NoFile
            /\ warnings' = warnings
            /\ pc' = "lang"
       ELSE LET r == parse_source(src[fi], warnings)
            IN  /\ warnings' = r.warnings
                /\ IF r.status = "ok"
                   THEN /\ template_text' = r.lines
                        /\ source_texts' = r.tdict
                        /\ pc' = "lang"
                   ELSE /\ UNCHANGED <<template_text, source_texts>>
                        /\ pc' = "raised"
    /\ li' = 1
    /\ UNCHANGED <<src, tgt, overlay, fi, run, tr_texts, calls, pvars>>

\* the loop variables after the body ran for languages[li] of files[fi]
Advance ==
    IF li < Len(Languages)
    THEN /\ li' = li + 1 /\ fi' = fi /\ pc' = "lang"
    ELSE /\ li' = 1
         /\ fi' = fi + 1
         /\ pc' = IF fi < Len(Files) THEN "file" ELSE "done"

\* the body of "for lang in self.languages"
LangStep ==
    /\ pc = "lang"
    /\ LET p == <<fi, li>>
           ev == [kind |-> "none", file |-> fi, lang |-> li, before |-> tgt[p]]
       IN  IF Truthy(source_texts)
           THEN \E resp \in [1..Len(source_texts) -> Responses] :
                  LET g == get_translations(source_texts, Languages[li],
                                            tgt[p], resp)
                      text == format_map(template_text, g.tr_texts)
                  IN  /\ tr_texts' = g.tr_texts
                      /\ calls' = g.calls
                      /\ IF g.status # "ok"
                         THEN /\ event' = [ev EXCEPT !.kind = "raise_import"]
                              /\ pc' = "raised"
                              /\ UNCHANGED <<tgt, fi, li>>
                         ELSE IF ~text.ok
                         THEN /\ event' = [ev EXCEPT !.kind = "raise_format"]
                              /\ pc' = "raised"
                              /\ UNCHANGED <<tgt, fi, li>>
                         ELSE \* write_translation
                              /\ event' = [ev EXCEPT !.kind = "write"]
                              /\ tgt' = [tgt EXCEPT ![p] = text.text]
                              /\ Advance
           ELSE \* unlink(missing_ok=True)
                /\ event' = [ev EXCEPT !.kind = "unlink"]
                /\ tgt' = [tgt EXCEPT ![p] = NoFile]
                /\ tr_texts' = <<>>
                /\ calls' = <<>>
                /\ Advance
    /\ UNCHANGED <<src, overlay, warnings, run, template_text, source_texts,
                   parsed, pvars>>

\* translate_main is called again on the folder as the last call left it
Rerun ==
    /\ pc = "done"
    /\ run < MaxRuns
    /\ run' = run + 1
    /\ pc' = "file"
    /\ fi' = 1
    /\ li' = 1
    /\ parsed' = [f \in 1..Len(Files) |-> 0]
    /\ template_text' = NoFile
    /\ source_texts' = NoFile
    /\ tr_texts' = <<>>
    /\ calls' = <<>>
    /\ event' = NoEvent
    /\ UNCHANGED <<src, tgt, overlay, warnings, pvars>>

Next == ParseStep \/ LangStep \/ Rerun

Spec == Init /\ [][Next]_vars

\* ------------------------------------------- claims about parse_source

\* the lines after the first that the loop body has run on
Processed ==
    LET all == SplitLines(content)
    IN  SubSeq(all, 2, Len(all) - Len(unread))

\* the '"' after the first "=" of a line
QuotesAfterEq(raw) ==
    Cardinality({i \in (Index(raw, <<"=">>, 1) + 1)..Len(raw) : raw[i] = "\""})

LooksAssigned(raw) == Contains(raw, <<"=">>) /\ Contains(raw, <<"\"">>)

\* an assignment line: "=" and at least two '"' after the first "="
IsAssignment(raw) == LooksAssigned(raw) /\ QuotesAfterEq(raw) >= 2

\* a malformed line: "=" and '"' but fewer than two '"' after the first "="
IsMalformed(raw) == LooksAssigned(raw) /\ QuotesAfterEq(raw) < 2

OpenQuote(raw) == Index(raw, <<"\"">>, Index(raw, <<"=">>, 1) + 1)

CloseQuote(raw) == RIndex(raw, <<"\"">>)

RawKey(raw) == NormalizeKey(Slice(raw, 1, Index(raw, <<"=">>, 1) - 1))

RawText(raw) == Slice(raw, OpenQuote(raw) + 1, CloseQuote(raw) - 1)

\* a source line with its literal replaced by the mapping's text for its key
Substituted(raw, m) ==
    IF IsAssignment(raw) /\ DictHas(m, RawKey(raw))
    THEN Slice(raw, 1, OpenQuote(raw)) \o DictGet(m, RawKey(raw))
         \o Slice(raw, CloseQuote(raw), Len(raw))
    ELSE raw

\* the source text with the line-1 language token and the literals replaced
Expected(text, m) ==
    LET all == SplitLines(text)
    IN  IF all = <<>> THEN <<>>
        ELSE Replace(Head(all), SourceId, DictGet(m, LanguageKey))
             \o Join([i \in 1..(Len(all) - 1) |-> Substituted(all[i + 1], m)])

\* C1: rendering the template of a parsed source file with a mapping that
\* binds every referenced key succeeds and gives the source text with only
\* the line-1 language token and the literals replaced, whatever "{" and "}"
\* the lines hold, line 1 included.
C1_RoundTrip ==
    phase = "rendered" => out.ok /\ out.text = Expected(content, mapping)

\* C2: for an assignment line the recorded key is the text before the first
\* "=" trimmed with "." replaced by "-", and the recorded text is the
\* original substring between the first '"' after that "=" and the last '"',
\* braces kept as they are.
C2_Extraction ==
    (phase = "loop" /\ last # <<>> /\ IsAssignment(last) /\ st.status = "ok")
        => /\ DictHas(st.tdict, RawKey(last))
           /\ DictGet(st.tdict, RawKey(last)) = RawText(last)

\* C3: a line after the first with "=" and '"' but fewer than two '"' after
\* the first "=" does not abort the parse: the warning counter goes up by
\* one, the line goes into the template as it is (braces doubled for the
\* renderer), the mapping is left alone and the loop goes on.
C3_MalformedTolerated ==
    [][(phase = "loop" /\ st.status = "ok" /\ unread # <<>>
            /\ IsMalformed(Head(unread)))
        => /\ st'.status = "ok"
           /\ st'.warnings = st.warnings + 1
           /\ st'.lines = st.lines \o EscapeBraces(Head(unread))
           /\ st'.tdict = st.tdict]_vars

\* the classifier that reads nothing but the line
StatelessClass(raw) ==
    IF ~LooksAssigned(raw) THEN "Verbatim"
    ELSE IF QuotesAfterEq(raw) = 0 THEN "Raise"
    ELSE IF QuotesAfterEq(raw) = 1 THEN "Malformed"
    ELSE "Assignment"

StatelessKey(raw) ==
    NormalizeKey(EscapeBraces(Slice(raw, 1, Index(raw, <<"=">>, 1) - 1)))

StatelessEmit(raw) ==
    IF StatelessClass(raw) = "Assignment"
    THEN EscapeBraces(Slice(raw, 1, OpenQuote(raw)))
         \o <<"{">> \o StatelessKey(raw) \o <<"}">>
         \o EscapeBraces(Slice(raw, CloseQuote(raw), Len(raw)))
    ELSE EscapeBraces(raw)

RECURSIVE Stateless(_, _)
\* template, mapping and warnings of the stateless classifier over the lines
Stateless(acc, rest) ==
    IF rest = <<>> THEN acc
    ELSE LET raw == Head(rest)
             c == StatelessClass(raw)
         IN  IF c = "Raise" THEN [acc EXCEPT !.status = "ValueError"]
             ELSE Stateless(
                    [acc EXCEPT
                       !.lines = @ \o StatelessEmit(raw),
                       !.tdict = IF c = "Assignment"
                                 THEN DictSet(@, StatelessKey(raw),
                                              EscapeBraces(RawText(raw)))
                                 ELSE @,
                       !.warnings = IF c = "Malformed" THEN @ + 1 ELSE @],
                    Tail(rest))

StatelessResult ==
    Stateless([lines |-> Replace(Replace(Head(SplitLines(content)),
                                         <<"{">>, <<"{", "{">>),
                                 SourceId, LanguageField),
               tdict |-> <<>>, warnings |-> 0, status |-> "ok"],
              Processed)

\* C10: the template, the mapping and the warning count of parse_source are
\* those of a classifier that reads each line on its own, and the flag
\* is_valid is true at the start of a line only if the line before was an
\* Assignment or a Continuation whose trimmed text ends with "..".
C10_FlagIrrelevant ==
    phase # "open"
        => LET stateless == StatelessResult
           IN  /\ st.lines = stateless.lines
               /\ st.tdict = stateless.tdict
               /\ st.warnings = stateless.warnings
               /\ st.status = stateless.status
               /\ (st.status = "ok" /\ st.is_valid)
                      => /\ Processed # <<>>
                         /\ st.cls \in {"Assignment", "Continuation"}
                         /\ EndsWith(Strip(last), <<".", ".">>)

\* the flag is carried past a Continuation line that follows an Assignment
C10_Witness ==
    /\ phase = "loop"
    /\ Len(Processed) = 2
    /\ st.is_valid
    /\ st.cls = "Continuation"
    /\ IsAssignment(Processed[1])

\* ----------------------------------------- claims about translate_main

\* the language step just taken ran get_translations to its return
Returned == event.kind \in {"write", "raise_format"}

\* the language step just taken ran its body to the end
Completed == event.kind \in {"write", "unlink"}

EventPair == <<event.file, event.lang>>

\* the lines after the first of a file's text
BodyLines(text) ==
    LET all == SplitLines(text)
    IN  {all[i] : i \in 2..Len(all)}

\* the source file exists and holds an assignment line
HasAssignmentLine(text) ==
    text # NoFile /\ \E l \in BodyLines(text) : IsAssignment(l)

\* the keys a target file's lines give
TargetKeys(text) ==
    IF text = NoFile THEN {}
    ELSE {RawKey(l) : l \in {x \in BodyLines(text) : LooksAssigned(x)}}

\* the reserved key with the existing target file's contents layered on it
Layered(id, text) ==
    IF text = NoFile THEN <<<<LanguageKey, id>>>>
    ELSE import_translations(<<<<LanguageKey, id>>>>, text).tr_texts

\* C4 as stated: the mapping get_translations returns has the keys of S and
\* the reserved key, and no other.
C4_ExactKeySet ==
    Returned => DictKeys(tr_texts) = DictKeys(source_texts) \cup {LanguageKey}

\* C4: the mapping get_translations returns has the keys of S, the reserved
\* key and every key the existing target file gives; the keys of the target
\* file that S lacks stay in it.
C4_KeySetWithStale ==
    Returned => DictKeys(tr_texts) = DictKeys(source_texts) \cup {LanguageKey}
                                     \cup TargetKeys(event.before)

\* S = {A}, the target file holds A = "y" and B = "z": both stay in T
C4_Witness ==
    /\ event.kind = "write"
    /\ DictKeys(source_texts) = {KeyA}
    /\ DictHas(tr_texts, <<"B">>)
    /\ DictGet(tr_texts, <<"B">>) = <<"z">>
    /\ DictGet(tr_texts, KeyA) = <<"y">>

\* C5: in the mapping get_translations returns, the reserved key is bound to
\* the target language's identifier, whatever the source and target files hold.
C5_LanguageKey ==
    Returned => /\ DictHas(tr_texts, LanguageKey)
                /\ DictGet(tr_texts, LanguageKey) = Languages[event.lang]

\* C6 as stated: when the source file exists the target is written, and a
\* target file is removed if and only if the source file does not exist; the
\* source is parsed once per document.
C6_DeleteIffSourceMissing ==
    Completed => /\ (event.kind = "unlink") <=> (src[event.file] = NoFile)
                 /\ src[event.file] # NoFile
                        => event.kind = "write" /\ tgt[EventPair] # NoFile
                 /\ parsed[event.file] = 1

\* C6: a language step ends in a removal if and only if the source file is
\* missing or holds no assignment line, and then the target file is gone;
\* otherwise the rendered text is written, or an exception of
\* get_translations or format_map leaves the target file as it was; the
\* source is parsed once per document in a run.
C6_WriteOrDelete ==
    /\ \A f \in DOMAIN parsed : parsed[f] <= 1
    /\ event.kind \in {"write", "unlink", "raise_import", "raise_format"}
          => /\ parsed[event.file] = 1
             /\ (event.kind = "unlink") <=> ~HasAssignmentLine(src[event.file])
             /\ event.kind = "unlink" => tgt[EventPair] = NoFile
             /\ event.kind = "write"
                   => /\ tgt[EventPair] # NoFile
                      /\ tgt[EventPair] = format_map(template_text, tr_texts).text
             /\ event.kind \in {"raise_import", "raise_format"}
                   => tgt[EventPair] = event.before

\* an existing target file is removed although the source file exists
C6_Witness ==
    /\ event.kind = "unlink"
    /\ src[event.file] # NoFile
    /\ event.before # NoFile
    /\ tgt[EventPair] = NoFile

\* C7 as stated: the keys of S absent after layering the existing target go
\* to the provider in one batch call (none when nothing is missing), the
\* i-th returned text is assigned to the i-th missing key, and the keys that
\* had text keep it.
C7_OneBatchCall ==
    Returned =>
        LET layered == Layered(Languages[event.lang], event.before)
            missing == MissingKeys(source_texts, layered)
        IN  /\ missing = <<>> => calls = <<>>
            /\ missing # <<>>
                  => /\ Len(calls) = 1
                     /\ calls[1].op = "translate_batch"
                     /\ Len(calls[1].texts) = Len(missing)
                     /\ \A i \in 1..Len(missing) :
                           DictGet(tr_texts, missing[i]) = calls[1].result[i]
            /\ \A k \in DictKeys(layered) :
                  DictGet(tr_texts, k) = DictGet(layered, k)

\* C7: each key of S absent after layering the existing target goes to the
\* provider in a call of its own, in the order of S, with vars_mod of its
\* source text; it is assigned vars_demod of the text returned; the keys
\* that had text keep it.
C7_OneCallPerMissingKey ==
    Returned =>
        LET layered == Layered(Languages[event.lang], event.before)
            missing == MissingKeys(source_texts, layered)
        IN  /\ Len(calls) = Len(missing)
            /\ \A i \in 1..Len(missing) :
                  /\ i <= Len(calls)
                  /\ calls[i].op = "translate"
                  /\ calls[i].target = Languages[event.lang]
                  /\ calls[i].texts
                        = <<vars_mod(DictGet(source_texts, missing[i]))>>
                  /\ DictGet(tr_texts, missing[i])
                        = vars_demod(calls[i].result[1])
            /\ \A k \in DictKeys(layered) :
                  DictGet(tr_texts, k) = DictGet(layered, k)

\* S = {A, C}, the target file has A: only C goes to the provider, and the
\* text assigned is not the text returned but vars_demod of it
C7_Witness ==
    /\ event.kind = "write"
    /\ Len(source_texts) = 2
    /\ event.before # NoFile
    /\ Len(calls) = 1
    /\ DictGet(tr_texts, KeyC) # calls[1].result[1]
    /\ DictGet(tr_texts, KeyA) = <<"y">>

\* C8: a key of S for which the import overlay has a text takes the
\* overlay's text, whether or not the existing target file has one, and is
\* not sent to the provider.
C8_OverlayWins ==
    (event.kind = "write" /\ overlay[EventPair] # NoFile) =>
        LET over == import_translations(<<>>, overlay[EventPair]).tr_texts
        IN  \A k \in DictKeys(source_texts) \cap DictKeys(over) :
              /\ DictGet(tr_texts, k) = DictGet(over, k)
              /\ \A i \in 1..Len(calls) :
                    calls[i].texts # <<vars_mod(DictGet(source_texts, k))>>

\* C9: in a second run over unchanged source and target files, a language
\* step whose target the first run wrote sends nothing to the provider and
\* writes the text the target file already holds.
C9_SecondRunIdempotent ==
    (run >= 2 /\ event.kind \in {"write", "raise_import", "raise_format"})
        => /\ event.kind = "write"
           /\ calls = <<>>
           /\ tgt[EventPair] = event.before

====
